---- MODULE Spec2Model ----
(***************************************************************************)
(* Model of the benchmark report scripts of patternia:                     *)
(*   scripts/bench_compare.py        baseline-vs-current comparison + gate *)
(*   scripts/bench_single_report.py  per-scenario report of one result set *)
(*   scripts/bench_stage_results.py  copy of two result files into place   *)
(*                                                                         *)
(* Strings that the code sorts, searches or splits are sequences of        *)
(* character codes; dictionaries are functions whose DOMAIN is the key     *)
(* set; Optional[float] is a sequence of length 0 or 1; a float is a       *)
(* record [n, d]: the rational n/d when d > 0, NaN when n = d = 0 and      *)
(* +/-infinity when d = 0 and n = +/-1.  FAdd, FSub, FMul and FDiv give    *)
(* the exact result; Fl rounds a result to the nearest float of MantBits   *)
(* significant bits (ties to even), as every operation of Python's floats  *)
(* does with 53 bits, and BenchRowFl is the row arithmetic with every      *)
(* operation rounded, for what depends on the rounding.                    *)
(***************************************************************************)
EXTENDS Integers, Sequences, FiniteSets, TLC

VARIABLES
  prog,          \* which script runs: "compare", "single" or "stage"
  args,          \* the parsed command line
  files,         \* the input files: baseline/current (compare, stage) or input (single)
  pc,            \* position of main()
  baseline_agg,  \* bench_compare.main: baseline_agg
  current_agg,   \* bench_compare.main: current_agg
  rows,          \* bench_compare.main: rows
  exit_code,     \* bench_compare.main: exit_code
  regressions,   \* bench_compare.main: regressions
  gate_log,      \* the [bench-gate] lines printed so far
  metrics,       \* bench_single_report.main: metrics
  points,        \* bench_single_report.main: points
  out_md,        \* the markdown artifact: <<>> until written, then <<content>>
  out_csv,       \* the CSV artifact
  out_png,       \* the PNG artifact
  status,        \* process exit status, -1 while main() is running
  dest           \* bench_stage_results: baseline_dst and current_dst, each
                 \* <<>> while the file is absent, then <<content>>

vars == <<dest, prog, args, files, pc, baseline_agg, current_agg, rows,
          exit_code, regressions, gate_log, metrics, points, out_md, out_csv,
          out_png, status>>

(***************************************************************************)
(* Bounds of the model.                                                    *)
(***************************************************************************)
\* largest cpu_time (ns) a record of an input file carries
MaxMean == 2
\* longest list of benchmark records in the input of bench_single_report
MaxRecords == 3
\* significant bits of the mantissa of a rounded float (53 in Python)
MantBits == 5
\* largest mean (ns), in absolute value, given to the rounded row arithmetic
MaxFloatMean == 12
\* longest benchmark name, in pieces ("BM_", "B", "a", "_", "/"), that
\* _split_impl_and_scenario is given
MaxPieces == 4

(***************************************************************************)
(* Floats.                                                                 *)
(***************************************************************************)
Abs(i) == IF i < 0 THEN -i ELSE i

RECURSIVE Gcd(_, _)
Gcd(a, b) == IF b = 0 THEN a ELSE Gcd(b, a % b)

NaN == [n |-> 0, d |-> 0]
PosInf == [n |-> 1, d |-> 0]
NegInf == [n |-> -1, d |-> 0]

\* the float n/d, d # 0, in lowest terms with a positive denominator
Rat(n, d) ==
  LET g == Gcd(Abs(n), Abs(d))
      s == IF d < 0 THEN -1 ELSE 1
  IN [n |-> (s * n) \div g, d |-> (s * d) \div g]

Num(i) == [n |-> i, d |-> 1]

IsNaN(x) == x.d = 0 /\ x.n = 0
IsInf(x) == x.d = 0 /\ x.n # 0
Sgn(i) == IF i > 0 THEN 1 ELSE IF i < 0 THEN -1 ELSE 0

FNeg(x) == [n |-> -x.n, d |-> x.d]

FAdd(a, b) ==
  IF IsNaN(a) \/ IsNaN(b) THEN NaN
  ELSE IF IsInf(a) /\ IsInf(b) THEN (IF a.n = b.n THEN a ELSE NaN)
  ELSE IF IsInf(a) THEN a
  ELSE IF IsInf(b) THEN b
  ELSE Rat(a.n * b.d + b.n * a.d, a.d * b.d)

FSub(a, b) == FAdd(a, FNeg(b))

FMul(a, b) ==
  IF IsNaN(a) \/ IsNaN(b) THEN NaN
  ELSE IF IsInf(a) \/ IsInf(b)
       THEN (IF a.n = 0 \/ b.n = 0 THEN NaN
             ELSE [n |-> Sgn(a.n) * Sgn(b.n), d |-> 0])
  ELSE Rat(a.n * b.n, a.d * b.d)

\* a / b for b # 0 (Python raises ZeroDivisionError on b = 0: every call
\* site of the scripts tests the divisor first, so that case is never taken)
FDiv(a, b) ==
  IF IsNaN(a) \/ IsNaN(b) THEN NaN
  ELSE IF IsInf(a) /\ IsInf(b) THEN NaN
  ELSE IF IsInf(b) THEN Num(0)
  ELSE IF IsInf(a) THEN [n |-> Sgn(a.n) * Sgn(b.n), d |-> 0]
  ELSE IF b.n = 0 THEN NaN
  ELSE Rat(a.n * b.d, a.d * b.n)

\* a > b; every comparison with NaN is false
FGt(a, b) ==
  IF IsNaN(a) \/ IsNaN(b) THEN FALSE
  ELSE IF IsInf(a) THEN a.n = 1 /\ b # PosInf
  ELSE IF IsInf(b) THEN b.n = -1
  ELSE a.n * b.d > b.n * a.d

FLt(a, b) == FGt(b, a)

\* a == b
FEq(a, b) == ~IsNaN(a) /\ ~IsNaN(b) /\ a = b

\* a != b
FNe(a, b) == ~FEq(a, b)

RECURSIVE FSum(_)
\* sum(xs), left to right from 0
FSum(xs) ==
  IF xs = <<>> THEN Num(0)
  ELSE FAdd(FSum(SubSeq(xs, 1, Len(xs) - 1)), xs[Len(xs)])

RECURSIVE Pow2(_)
Pow2(k) == IF k = 0 THEN 1 ELSE 2 * Pow2(k - 1)

\* |x|
FAbs(x) == [n |-> Abs(x.n), d |-> x.d]

\* n / d, n >= 0 and d > 0, rounded to the nearest integer, a tie to the even one
RoundHalfEven(n, d) ==
  LET q == n \div d
      r == n % d
  IN IF 2 * r < d THEN q
     ELSE IF 2 * r > d THEN q + 1
     ELSE IF q % 2 = 0 THEN q ELSE q + 1

RECURSIVE ShiftDown(_, _, _)
\* the least k >= from with n / (d * 2^k) < 2^MantBits
ShiftDown(n, d, from) ==
  IF n < Pow2(MantBits) * d * Pow2(from) THEN from ELSE ShiftDown(n, d, from + 1)

RECURSIVE ShiftUp(_, _, _)
\* the least k >= from with n * 2^k / d >= 2^(MantBits - 1)
ShiftUp(n, d, from) ==
  IF n * Pow2(from) >= Pow2(MantBits - 1) * d THEN from ELSE ShiftUp(n, d, from + 1)

\* the float nearest to x: x scaled by a power of two to a mantissa of
\* MantBits bits, rounded, scaled back; the exponent is not bounded (no
\* overflow, no underflow)
Fl(x) ==
  IF x.d = 0 \/ x.n = 0 THEN x
  ELSE LET a == Abs(x.n)
           sign == Sgn(x.n)
       IN IF a >= Pow2(MantBits) * x.d
          THEN LET k == ShiftDown(a, x.d, 1)
               IN Num(sign * RoundHalfEven(a, x.d * Pow2(k)) * Pow2(k))
          ELSE LET k == ShiftUp(a, x.d, 0)
               IN Rat(sign * RoundHalfEven(a * Pow2(k), x.d), Pow2(k))

(***************************************************************************)
(* Strings as sequences of character codes.                                *)
(***************************************************************************)
chSlash == 47
chUnderscore == 95

\* "BM_"
sBM == <<66, 77, 95>>
\* "Foo"
sFoo == <<70, 111, 111>>
\* "Bar"
sBar == <<66, 97, 114>>
\* "Unknown"
sUnknown == <<85, 110, 107, 110, 111, 119, 110>>
\* "Patternia"
sPatternia == <<80, 97, 116, 116, 101, 114, 110, 105, 97>>
\* "IfElse"
sIfElse == <<73, 102, 69, 108, 115, 101>>
\* "Switch"
sSwitch == <<83, 119, 105, 116, 99, 104>>
\* "SwitchIndex"
sSwitchIndex == <<83, 119, 105, 116, 99, 104, 73, 110, 100, 101, 120>>
\* "StdVisit"
sStdVisit == <<83, 116, 100, 86, 105, 115, 105, 116>>
\* "Lookup"
sLookup == <<76, 111, 111, 107, 117, 112>>

RECURSIVE StrLess(_, _)
\* a < b in Python's order of str: code point by code point, a proper
\* prefix first
StrLess(a, b) ==
  IF b = <<>> THEN FALSE
  ELSE IF a = <<>> THEN TRUE
  ELSE IF Head(a) # Head(b) THEN Head(a) < Head(b)
  ELSE StrLess(Tail(a), Tail(b))

\* s.startswith(p)
StartsWith(s, p) == Len(s) >= Len(p) /\ SubSeq(s, 1, Len(p)) = p

\* re.compile(p).search(s) for a pattern p of literal characters
Search(p, s) ==
  \E i \in 1..(Len(s) + 1) :
    i + Len(p) - 1 <= Len(s) /\ SubSeq(s, i, i + Len(p) - 1) = p

\* the least string of a non-empty set
MinStr(S) == CHOOSE x \in S : \A y \in S : y = x \/ StrLess(x, y)

RECURSIVE Sorted(_)
\* sorted(S) for a set of strings
Sorted(S) ==
  IF S = {} THEN <<>>
  ELSE LET m == MinStr(S) IN <<m>> \o Sorted(S \ {m})

\* the elements of a sequence
Range(s) == {s[i] : i \in DOMAIN s}

(***************************************************************************)
(* Dictionaries and optional values.                                       *)
(***************************************************************************)
\* {}
EmptyDict == [k \in {} |-> NaN]

\* d[k] = v
Put(d, k, v) == [x \in (DOMAIN d) \cup {k} |-> IF x = k THEN v ELSE d[x]]

\* d.get(k): <<>> is None
Get(d, k) == IF k \in DOMAIN d THEN <<d[k]>> ELSE <<>>

\* a dict whose iteration order matters: its keys in insertion order
EmptyODict == [keys |-> <<>>, map |-> EmptyDict]

ODPut(d, k, v) ==
  [keys |-> IF k \in DOMAIN d.map THEN d.keys ELSE Append(d.keys, k),
   map |-> Put(d.map, k, v)]

\* `not s` is false: the key is present and its string is not empty
Truthy(entry, key, empty) == key \in DOMAIN entry /\ entry[key] # empty

(***************************************************************************)
(* bench_compare.py                                                        *)
(***************************************************************************)
\* one iteration of the loop of _extract_aggregates
ExtractAggregatesStep(out, entry) ==
  IF ~Truthy(entry, "run_name", <<>>) \/ ~Truthy(entry, "aggregate_name", "")
  THEN out
  ELSE LET run_name == entry.run_name
           slot == IF run_name \in DOMAIN out THEN out[run_name] ELSE EmptyDict
       IN IF "cpu_time" \in DOMAIN entry
          THEN Put(out, run_name, Put(slot, entry.aggregate_name, entry.cpu_time))
          ELSE Put(out, run_name, slot)

RECURSIVE _extract_aggregates(_)
_extract_aggregates(benchmarks) ==
  IF benchmarks = <<>> THEN EmptyDict
  ELSE ExtractAggregatesStep(
         _extract_aggregates(SubSeq(benchmarks, 1, Len(benchmarks) - 1)),
         benchmarks[Len(benchmarks)])

\* BenchRow with delta_pct left a fraction (the factor 100 forgotten)
BenchRow_fraction(name, b_mean, c_mean, b_cv, c_cv) ==
  [name |-> name,
   baseline_mean_ns |-> b_mean,
   current_mean_ns |-> c_mean,
   delta_pct |-> IF FNe(b_mean, Num(0))
                 THEN FDiv(FSub(c_mean, b_mean), b_mean)
                 ELSE NaN,
   speedup |-> IF FNe(c_mean, Num(0)) THEN FDiv(b_mean, c_mean) ELSE NaN,
   baseline_cv_pct |-> IF b_cv # <<>> THEN <<FMul(b_cv[1], Num(100))>> ELSE <<>>,
   current_cv_pct |-> IF c_cv # <<>> THEN <<FMul(c_cv[1], Num(100))>> ELSE <<>>]

\* BenchRow with the difference taken the wrong way round (b - c)
BenchRow_flipped(name, b_mean, c_mean, b_cv, c_cv) ==
  [name |-> name,
   baseline_mean_ns |-> b_mean,
   current_mean_ns |-> c_mean,
   delta_pct |-> IF FNe(b_mean, Num(0))
                 THEN FMul(FDiv(FSub(b_mean, c_mean), b_mean), Num(100))
                 ELSE NaN,
   speedup |-> IF FNe(c_mean, Num(0)) THEN FDiv(b_mean, c_mean) ELSE NaN,
   baseline_cv_pct |-> IF b_cv # <<>> THEN <<FMul(b_cv[1], Num(100))>> ELSE <<>>,
   current_cv_pct |-> IF c_cv # <<>> THEN <<FMul(c_cv[1], Num(100))>> ELSE <<>>]

\* the BenchRow that _to_rows builds for `name` (lines 92-108)
BenchRow(name, b_mean, c_mean, b_cv, c_cv) ==
  [name |-> name,
   baseline_mean_ns |-> b_mean,
   current_mean_ns |-> c_mean,
   delta_pct |-> IF FNe(b_mean, Num(0))
                 THEN FMul(FDiv(FSub(c_mean, b_mean), b_mean), Num(100))
                 ELSE NaN,
   speedup |-> IF FNe(c_mean, Num(0)) THEN FDiv(b_mean, c_mean) ELSE NaN,
   baseline_cv_pct |-> IF b_cv # <<>> THEN <<FMul(b_cv[1], Num(100))>> ELSE <<>>,
   current_cv_pct |-> IF c_cv # <<>> THEN <<FMul(c_cv[1], Num(100))>> ELSE <<>>]

\* BenchRowFl with the speedup inverted (c / b)
BenchRowFl_inverted(name, b_mean, c_mean, b_cv, c_cv) ==
  [name |-> name,
   baseline_mean_ns |-> b_mean,
   current_mean_ns |-> c_mean,
   delta_pct |-> IF FNe(b_mean, Num(0))
                 THEN Fl(FMul(Fl(FDiv(Fl(FSub(c_mean, b_mean)), b_mean)), Num(100)))
                 ELSE NaN,
   speedup |-> IF FNe(c_mean, Num(0)) THEN Fl(FDiv(c_mean, b_mean)) ELSE NaN,
   baseline_cv_pct |-> IF b_cv # <<>> THEN <<Fl(FMul(b_cv[1], Num(100)))>> ELSE <<>>,
   current_cv_pct |-> IF c_cv # <<>> THEN <<Fl(FMul(c_cv[1], Num(100)))>> ELSE <<>>]

\* the BenchRow of lines 92-108 with every operation rounded as Python
\* rounds it: (c_mean - b_mean), / b_mean, * 100.0; b_mean / c_mean
BenchRowFl(name, b_mean, c_mean, b_cv, c_cv) ==
  [name |-> name,
   baseline_mean_ns |-> b_mean,
   current_mean_ns |-> c_mean,
   delta_pct |-> IF FNe(b_mean, Num(0))
                 THEN Fl(FMul(Fl(FDiv(Fl(FSub(c_mean, b_mean)), b_mean)), Num(100)))
                 ELSE NaN,
   speedup |-> IF FNe(c_mean, Num(0)) THEN Fl(FDiv(b_mean, c_mean)) ELSE NaN,
   baseline_cv_pct |-> IF b_cv # <<>> THEN <<Fl(FMul(b_cv[1], Num(100)))>> ELSE <<>>,
   current_cv_pct |-> IF c_cv # <<>> THEN <<Fl(FMul(c_cv[1], Num(100)))>> ELSE <<>>]

RECURSIVE RowsOf_falsy(_, _, _)
\* RowsOf with the test `if not b_mean or not c_mean`, which also skips a
\* mean of 0
RowsOf_falsy(names, baseline, current) ==
  IF names = <<>> THEN <<>>
  ELSE LET name == Head(names)
           b_mean == Get(baseline[name], "mean")
           c_mean == Get(current[name], "mean")
           rest == RowsOf_falsy(Tail(names), baseline, current)
       IN IF b_mean = <<>> \/ c_mean = <<>> THEN rest
          ELSE IF b_mean[1] = Num(0) \/ c_mean[1] = Num(0) THEN rest
          ELSE <<BenchRow(name, b_mean[1], c_mean[1],
                          Get(baseline[name], "cv"), Get(current[name], "cv"))>>
               \o rest

RECURSIVE RowsOf(_, _, _)
\* the loop of _to_rows over the selected names
RowsOf(names, baseline, current) ==
  IF names = <<>> THEN <<>>
  ELSE LET name == Head(names)
           b_mean == Get(baseline[name], "mean")
           c_mean == Get(current[name], "mean")
           rest == RowsOf(Tail(names), baseline, current)
       IN IF b_mean = <<>> \/ c_mean = <<>> THEN rest
          ELSE <<BenchRow(name, b_mean[1], c_mean[1],
                          Get(baseline[name], "cv"), Get(current[name], "cv"))>>
               \o rest

\* include_regex = <<>> stands for None (and for the empty pattern, which
\* `if include_regex:` treats alike)
_to_rows(baseline, current, include_regex) ==
  LET names == Sorted((DOMAIN baseline) \cap (DOMAIN current))
      kept == IF include_regex # <<>>
              THEN SelectSeq(names, LAMBDA n : Search(include_regex, n))
              ELSE names
  IN RowsOf(kept, baseline, current)

\* _to_rows with the arithmetic of each row rounded
_to_rowsFl(baseline, current, include_regex) ==
  LET selected == _to_rows(baseline, current, include_regex)
  IN [i \in DOMAIN selected |->
        BenchRowFl(selected[i].name,
                   selected[i].baseline_mean_ns,
                   selected[i].current_mean_ns,
                   Get(baseline[selected[i].name], "cv"),
                   Get(current[selected[i].name], "cv"))]

_is_finite(x) == ~IsNaN(x) /\ ~IsInf(x)

\* _find_regressions without the _is_finite test
_find_regressions_nofinite(rs, max_regress_pct) ==
  SelectSeq(rs, LAMBDA r : FGt(r.delta_pct, max_regress_pct))

_find_regressions(rs, max_regress_pct) ==
  SelectSeq(rs, LAMBDA r : _is_finite(r.delta_pct) /\ FGt(r.delta_pct, max_regress_pct))

\* [r.delta_pct for r in rs]
DeltasOf(rs) == [i \in DOMAIN rs |-> rs[i].delta_pct]

\* MeanRegressed over every delta, the undefined ones included
MeanRegressed_nofilter(rs, mean_regress_pct) ==
  LET deltas == DeltasOf(rs)
  IN /\ deltas # <<>>
     /\ FGt(FDiv(FSum(deltas), Num(Len(deltas))), mean_regress_pct)

\* main, lines 475-484: the mean check fails
MeanRegressed(rs, mean_regress_pct) ==
  LET deltas == SelectSeq(DeltasOf(rs), _is_finite)
  IN /\ deltas # <<>>
     /\ FGt(FDiv(FSum(deltas), Num(Len(deltas))), mean_regress_pct)

\* what _plot draws: the two bar series and the delta series
ComparePlot(rs) ==
  [names |-> [i \in DOMAIN rs |-> rs[i].name],
   bvals |-> [i \in DOMAIN rs |-> rs[i].baseline_mean_ns],
   cvals |-> [i \in DOMAIN rs |-> rs[i].current_mean_ns],
   deltas |-> DeltasOf(rs)]

(***************************************************************************)
(* bench_single_report.py                                                  *)
(***************************************************************************)
\* "_mean", "_median", "_stddev", "_cv"
sufMean == <<95, 109, 101, 97, 110>>
sufMedian == <<95, 109, 101, 100, 105, 97, 110>>
sufStddev == <<95, 115, 116, 100, 100, 101, 118>>
sufCv == <<95, 99, 118>>

\* s.endswith(p)
EndsWith(s, p) == Len(s) >= Len(p) /\ SubSeq(s, Len(s) - Len(p) + 1, Len(s)) = p

\* s[: -len(p)]
DropLast(s, p) == SubSeq(s, 1, Len(s) - Len(p))

\* <<>> is None, <<base>> a base name
_base_name_from_entry(entry) ==
  IF Truthy(entry, "run_name", <<>>) THEN <<entry.run_name>>
  ELSE IF ~Truthy(entry, "name", <<>>) THEN <<>>
  ELSE LET name == entry.name
       IN IF EndsWith(name, sufMean) THEN <<DropLast(name, sufMean)>>
          ELSE IF EndsWith(name, sufMedian) THEN <<DropLast(name, sufMedian)>>
          ELSE IF EndsWith(name, sufStddev) THEN <<DropLast(name, sufStddev)>>
          ELSE IF EndsWith(name, sufCv) THEN <<DropLast(name, sufCv)>>
          ELSE <<name>>

\* one iteration of the loop of _extract_metrics
ExtractMetricsStep(out, entry) ==
  LET base == _base_name_from_entry(entry)
  IN IF base = <<>> THEN out
     ELSE LET slot == IF base[1] \in DOMAIN out.map THEN out.map[base[1]] ELSE EmptyDict
          IN IF "cpu_time" \notin DOMAIN entry THEN ODPut(out, base[1], slot)
             ELSE IF Truthy(entry, "aggregate_name", "")
                  THEN ODPut(out, base[1], Put(slot, entry.aggregate_name, entry.cpu_time))
             ELSE IF "mean" \notin DOMAIN slot
                  THEN ODPut(out, base[1], Put(slot, "mean", entry.cpu_time))
             ELSE ODPut(out, base[1], slot)

RECURSIVE _extract_metrics(_)
_extract_metrics(benchmarks) ==
  IF benchmarks = <<>> THEN EmptyODict
  ELSE ExtractMetricsStep(
         _extract_metrics(SubSeq(benchmarks, 1, Len(benchmarks) - 1)),
         benchmarks[Len(benchmarks)])

\* index of the first c in s, 0 when there is none
IndexOf(s, c) ==
  IF \E i \in DOMAIN s : s[i] = c
  THEN CHOOSE i \in DOMAIN s : s[i] = c /\ \A j \in 1..(i - 1) : s[j] # c
  ELSE 0

\* _split_impl_and_scenario keeping the parameter suffix (line 87 left out)
_split_impl_and_scenario_keep_params(base_name) ==
  LET core == IF StartsWith(base_name, sBM)
              THEN SubSeq(base_name, 4, Len(base_name)) ELSE base_name
      us == IndexOf(core, chUnderscore)
  IN IF us = 0 THEN <<sUnknown, core>>
     ELSE <<SubSeq(core, 1, us - 1), SubSeq(core, us + 1, Len(core))>>

\* <<implementation, scenario>>
_split_impl_and_scenario(base_name) ==
  LET slash == IndexOf(base_name, chSlash)
      core0 == IF slash = 0 THEN base_name ELSE SubSeq(base_name, 1, slash - 1)
      core == IF StartsWith(core0, sBM) THEN SubSeq(core0, 4, Len(core0)) ELSE core0
      us == IndexOf(core, chUnderscore)
  IN IF us = 0 THEN <<sUnknown, core>>
     ELSE <<SubSeq(core, 1, us - 1), SubSeq(core, us + 1, Len(core))>>

preferred == <<sPatternia, sIfElse, sSwitch, sSwitchIndex, sStdVisit>>

\* _default_impl_order without the preferred labels: sorted(found) alone
_default_impl_order_lexical(impls) == Sorted(impls)

\* impls is the set of the labels found
_default_impl_order(impls) ==
  LET ordered == SelectSeq(preferred, LAMBDA x : x \in impls)
  IN ordered \o Sorted(impls \ Range(ordered))

RECURSIVE PointsOf(_, _, _)
\* the loop of _to_points over the base names in the order given
PointsOf(names, ms, include_regex) ==
  IF names = <<>> THEN <<>>
  ELSE LET base_name == Head(names)
           m == ms.map[base_name]
           rest == PointsOf(Tail(names), ms, include_regex)
           split == _split_impl_and_scenario(base_name)
           cv == Get(m, "cv")
       IN IF include_regex # <<>> /\ ~Search(include_regex, base_name) THEN rest
          ELSE IF "mean" \notin DOMAIN m THEN rest
          ELSE <<[base_name |-> base_name,
                  impl |-> split[1],
                  scenario |-> split[2],
                  mean_ns |-> m["mean"],
                  cv_pct |-> IF cv # <<>> THEN <<FMul(cv[1], Num(100))>> ELSE <<>>,
                  median_ns |-> Get(m, "median"),
                  stddev_ns |-> Get(m, "stddev")]>> \o rest

\* _to_points iterating metrics.items() as inserted, the sort forgotten
_to_points_unsorted(ms, include_regex) == PointsOf(ms.keys, ms, include_regex)

\* sorted(metrics.items()) orders by base name: the keys are distinct
_to_points(ms, include_regex) == PointsOf(Sorted(Range(ms.keys)), ms, include_regex)

\* row[impl] = p for a dict kept as the sequence of its values in insertion
\* order (each value carries its key, p.impl): a key already present keeps
\* its place and takes the new value
RowPut(row, p) ==
  IF \E i \in DOMAIN row : row[i].impl = p.impl
  THEN [i \in DOMAIN row |-> IF row[i].impl = p.impl THEN p ELSE row[i]]
  ELSE Append(row, p)

RECURSIVE _to_nested(_)
\* scenario -> the scenario's dict of points
_to_nested(ps) ==
  IF ps = <<>> THEN EmptyDict
  ELSE LET nested == _to_nested(SubSeq(ps, 1, Len(ps) - 1))
           p == ps[Len(ps)]
           row == IF p.scenario \in DOMAIN nested THEN nested[p.scenario] ELSE <<>>
       IN Put(nested, p.scenario, RowPut(row, p))

RECURSIVE MinByMean_last(_)
\* MinByMean keeping the last of several least values (<= for <)
MinByMean_last(row) ==
  IF Len(row) = 1 THEN row[1]
  ELSE LET best == MinByMean_last(SubSeq(row, 1, Len(row) - 1))
           x == row[Len(row)]
       IN IF ~FLt(best.mean_ns, x.mean_ns) THEN x ELSE best

RECURSIVE MinByMean(_)
\* min(row.values(), key=lambda x: x.mean_ns) for a non-empty row: the
\* first value, in the dict's order, that no later one is less than
MinByMean(row) ==
  IF Len(row) = 1 THEN row[1]
  ELSE LET best == MinByMean(SubSeq(row, 1, Len(row) - 1))
           x == row[Len(row)]
       IN IF FLt(x.mean_ns, best.mean_ns) THEN x ELSE best

\* row.get(impl)
RowGet(row, impl) == SelectSeq(row, LAMBDA p : p.impl = impl)

\* _save_markdown, lines 192-203: the table lines of one scenario
MarkdownLines(row, impl_order) ==
  LET fastest == MinByMean(row)
      present == SelectSeq(impl_order, LAMBDA i : RowGet(row, i) # <<>>)
  IN [k \in DOMAIN present |->
        LET p == RowGet(row, present[k])[1]
            delta == IF FGt(fastest.mean_ns, Num(0))
                     THEN FMul(FDiv(FSub(p.mean_ns, fastest.mean_ns),
                                    fastest.mean_ns), Num(100))
                     ELSE NaN
        IN [impl |-> present[k],
            mean_ns |-> p.mean_ns,
            delta |-> IF p.impl = fastest.impl THEN Num(0) ELSE delta,
            cv |-> p.cv_pct]]

\* the markdown report: one section per scenario
SingleMarkdown(nested, scenarios, impl_order) ==
  [si \in DOMAIN scenarios |->
     [scenario |-> scenarios[si],
      fastest |-> MinByMean(nested[scenarios[si]]).impl,
      lines |-> MarkdownLines(nested[scenarios[si]], impl_order)]]

\* _plot, line 224
PlotImpls(nested, scenarios, impl_order) ==
  SelectSeq(impl_order,
            LAMBDA i : \E si \in DOMAIN scenarios : RowGet(nested[scenarios[si]], i) # <<>>)

\* PlotRel giving the ratio to the fastest, the `- 1.0` forgotten
PlotRel_ratio(row, impl) ==
  LET fastest == MinByMean(row).mean_ns
      v == RowGet(row, impl)
  IN IF v = <<>> THEN NaN
     ELSE IF IsNaN(v[1].mean_ns) THEN NaN
     ELSE IF FGt(fastest, Num(0))
          THEN FMul(FDiv(v[1].mean_ns, fastest), Num(100))
          ELSE NaN

\* _plot, lines 285-294: the relative slowdown of impl in scenario sc
PlotRel(row, impl) ==
  LET fastest == MinByMean(row).mean_ns
      v == RowGet(row, impl)
  IN IF v = <<>> THEN NaN
     ELSE IF IsNaN(v[1].mean_ns) THEN NaN
     ELSE IF FGt(fastest, Num(0))
          THEN FMul(FSub(FDiv(v[1].mean_ns, fastest), Num(1)), Num(100))
          ELSE NaN

\* what _plot draws: the implementations, each one's slowdown series and
\* the fastest marker of each scenario
SinglePlot(nested, scenarios, impl_order) ==
  LET impls == PlotImpls(nested, scenarios, impl_order)
  IN [impls |-> impls,
      rel |-> [k \in DOMAIN impls |->
                 [si \in DOMAIN scenarios |-> PlotRel(nested[scenarios[si]], impls[k])]],
      fastest |-> [si \in DOMAIN scenarios |-> MinByMean(nested[scenarios[si]]).impl]]

\* impl_order of main, line 385
ImplOrderOf(ps) == _default_impl_order({ps[i].impl : i \in DOMAIN ps})

\* scenarios of main, line 384
ScenariosOf(ps) == Sorted(DOMAIN _to_nested(ps))

(***************************************************************************)
(* Inputs.                                                                 *)
(***************************************************************************)
\* the cpu_time values of the records of bench_compare's inputs
CpuTimes == {Num(i) : i \in (-1)..MaxMean} \cup {PosInf}

\* "BM_Foo", "BM_Bar"
nFoo == sBM \o sFoo
nBar == sBM \o sBar

\* the records one benchmark contributes to a result file: none, only an
\* iteration record (no aggregate_name), only a cv aggregate, or a mean
EntriesOf(run_name) ==
  {<<>>,
   <<[run_name |-> run_name, cpu_time |-> Num(1)]>>,
   <<[run_name |-> run_name, aggregate_name |-> "cv", cpu_time |-> Num(1)]>>}
  \cup {<<[run_name |-> run_name, aggregate_name |-> "mean", cpu_time |-> v]>> :
          v \in CpuTimes}

\* a file that is absent, one that is not JSON, one that holds `benchmarks`
NoFile == [exists |-> FALSE, json |-> FALSE, benchmarks |-> <<>>]
BadFile == [exists |-> TRUE, json |-> FALSE, benchmarks |-> <<>>]
JsonFile(benchmarks) == [exists |-> TRUE, json |-> TRUE, benchmarks |-> benchmarks]

CompareFiles ==
  {NoFile, BadFile} \cup {JsonFile(a \o b) : a \in EntriesOf(nFoo), b \in EntriesOf(nBar)}

\* --fail-if-regress-pct / --fail-if-mean-regress-pct: <<>> is None
Thresholds == {<<>>, <<Num(0)>>, <<Num(100)>>}

CompareArgs ==
  [include : {<<>>, sFoo},
   fail_if_regress_pct : Thresholds,
   fail_if_mean_regress_pct : Thresholds]

\* "BM_Patternia_Lookup", "BM_IfElse_Lookup", "IfElse_Lookup"
nPatternia == sBM \o sPatternia \o <<chUnderscore>> \o sLookup
nIfElse == sBM \o sIfElse \o <<chUnderscore>> \o sLookup
nIfElsePlain == sIfElse \o <<chUnderscore>> \o sLookup

\* the records of bench_single_report's input: a mean of zero, of one, or
\* the largest
SingleEntries ==
  {[run_name |-> r, aggregate_name |-> "mean", cpu_time |-> Num(v)] :
     r \in {nPatternia, nIfElse, nIfElsePlain}, v \in {0, 1, MaxMean}}

RECURSIVE SeqsUpTo(_, _)
\* the sequences over S of length at most n
SeqsUpTo(S, n) ==
  IF n = 0 THEN {<<>>}
  ELSE LET shorter == SeqsUpTo(S, n - 1)
       IN shorter \cup {Append(q, x) : q \in shorter, x \in S}

SingleFiles ==
  {NoFile, BadFile} \cup {JsonFile(q) : q \in SeqsUpTo(SingleEntries, MaxRecords)}

SingleArgs == [include : {<<>>, sPatternia}, no_plot : BOOLEAN]

\* no --include, no --no-plot
PlainArgs == [include |-> <<>>, no_plot |-> FALSE]

\* q has no element twice
Distinct(q) == \A i, j \in DOMAIN q : q[i] = q[j] => i = j

\* "Zeta", "Alpha", "Beta", "Visit"
sZeta == <<90, 101, 116, 97>>
sAlpha == <<65, 108, 112, 104, 97>>
sBeta == <<66, 101, 116, 97>>
sVisit == <<86, 105, 115, 105, 116>>

\* BM_<impl>_<scenario>
BenchName(impl, scenario) == sBM \o impl \o <<chUnderscore>> \o scenario

\* benchmarks of known and unknown implementations in two scenarios, and
\* one whose name has no implementation part
OrderNames ==
  {BenchName(sPatternia, sLookup), BenchName(sSwitch, sLookup),
   BenchName(sSwitchIndex, sLookup), BenchName(sStdVisit, sLookup),
   BenchName(sZeta, sLookup), BenchName(sAlpha, sLookup),
   BenchName(sAlpha, sVisit), sBeta}

\* inputs that hold several implementations, the records in any order
OrderFiles ==
  {JsonFile(q) :
     q \in {r \in SeqsUpTo({[run_name |-> n, aggregate_name |-> "mean", cpu_time |-> Num(1)] :
                               n \in OrderNames}, MaxRecords) : Distinct(r)}}

\* records that have only a "name", which for an aggregate carries the
\* statistic as a suffix; the value tells the records apart
NamedEntries ==
  {[name |-> nIfElse \o sufMean, cpu_time |-> Num(1)],
   [name |-> nIfElse \o sufMedian, cpu_time |-> Num(2)],
   [name |-> nIfElse \o sufStddev, cpu_time |-> Num(3)],
   [name |-> nIfElse \o sufCv, cpu_time |-> Num(4)],
   [name |-> nIfElse, cpu_time |-> Num(5)]}

NamedFiles == {JsonFile(q) : q \in SeqsUpTo(NamedEntries, MaxRecords)}

\* the pieces benchmark names are made of: "BM_", "B", "a", "_", "/"
Pieces == {sBM, <<66>>, <<97>>, <<chUnderscore>>, <<chSlash>>}

RECURSIVE NamesUpTo(_)
\* the names of at most n pieces
NamesUpTo(n) ==
  IF n = 0 THEN {<<>>}
  ELSE LET shorter == NamesUpTo(n - 1)
       IN shorter \cup {q \o x : q \in shorter, x \in Pieces}

\* inputs of one benchmark with a name of any shape
SplitFiles ==
  {JsonFile(<<[run_name |-> n, aggregate_name |-> "mean", cpu_time |-> Num(1)]>>) :
     n \in NamesUpTo(MaxPieces)}

\* what --baseline / --current of bench_stage_results may name: nothing, a
\* file, a directory without result.json, a directory that holds one; the
\* content of the result file found there is `content`
StagePaths(content) ==
  {[is_dir |-> FALSE, exists |-> FALSE, content |-> content],
   [is_dir |-> FALSE, exists |-> TRUE, content |-> content],
   [is_dir |-> TRUE, exists |-> FALSE, content |-> content],
   [is_dir |-> TRUE, exists |-> TRUE, content |-> content]}

\* the content of the baseline source, of the current source, and of a
\* destination file left by an earlier run
newBaseline == "new baseline"
newCurrent == "new current"
stale == "stale"

\* a destination file before the run: absent, or left by an earlier run
StageDests == {<<>>, <<stale>>}

(***************************************************************************)
(* The state after argument parsing, before main() touches a file.         *)
(***************************************************************************)
NoDest == [baseline |-> <<>>, current |-> <<>>]

Init ==
  /\ prog \in {"compare", "single", "stage"}
  /\ CASE prog = "compare" ->
            /\ args \in CompareArgs
            /\ files \in [baseline : CompareFiles, current : CompareFiles]
            /\ dest = NoDest
       [] prog = "single" ->
            /\ \/ args \in SingleArgs /\ files \in [input : SingleFiles]
               \/ /\ args = PlainArgs
                  /\ files \in [input : OrderFiles \cup NamedFiles \cup SplitFiles]
            /\ dest = NoDest
       [] prog = "stage" ->
            /\ args = [dest |-> "bench/results"]
            /\ files \in [baseline : StagePaths(newBaseline), current : StagePaths(newCurrent)]
            /\ dest \in [baseline : StageDests, current : StageDests]
  /\ pc = "start"
  /\ baseline_agg = EmptyDict
  /\ current_agg = EmptyDict
  /\ rows = <<>>
  /\ exit_code = 0
  /\ regressions = <<>>
  /\ gate_log = <<>>
  /\ metrics = EmptyODict
  /\ points = <<>>
  /\ out_md = <<>>
  /\ out_csv = <<>>
  /\ out_png = <<>>
  /\ status = -1

\* Fatal leaving with the exit status of a gate failure, SystemExit(2)
Fatal_gate_status(where) == pc' = where /\ status' = 2

\* raise SystemExit(message), or an uncaught exception: exit status 1
Fatal(where) == pc' = where /\ status' = 1

(***************************************************************************)
(* bench_compare.main                                                      *)
(***************************************************************************)
\* lines 414-435: check and load the inputs, extract, match
CmpPrepare ==
  /\ prog = "compare" /\ pc = "start"
  /\ IF ~files.baseline.exists \/ ~files.current.exists
        \/ ~files.baseline.json \/ ~files.current.json
     THEN /\ Fatal("fatal_input")
          /\ UNCHANGED <<baseline_agg, current_agg, rows>>
     ELSE LET b == _extract_aggregates(files.baseline.benchmarks)
              c == _extract_aggregates(files.current.benchmarks)
              rs == _to_rows(b, c, args.include)
          IN /\ baseline_agg' = b
             /\ current_agg' = c
             /\ rows' = rs
             /\ IF rs = <<>> THEN Fatal("fatal_no_overlap")
                ELSE pc' = "plot" /\ UNCHANGED status
  /\ UNCHANGED <<dest, prog, args, files, exit_code, regressions, gate_log, metrics, points,
                 out_md, out_csv, out_png>>

\* lines 440-448: _plot either renders and saves the chart or aborts
\* (matplotlib missing, lines 190-194, or an error while rendering)
CmpPlot ==
  /\ prog = "compare" /\ pc = "plot"
  /\ \E rendered \in BOOLEAN :
       IF rendered
       THEN out_png' = <<ComparePlot(rows)>> /\ pc' = "markdown" /\ UNCHANGED status
       ELSE Fatal("fatal_plot") /\ UNCHANGED out_png
  /\ UNCHANGED <<dest, prog, args, files, baseline_agg, current_agg, rows, exit_code,
                 regressions, gate_log, metrics, points, out_md, out_csv>>

\* lines 449-458: _save_markdown
CmpSaveMarkdown ==
  /\ prog = "compare" /\ pc = "markdown"
  /\ out_md' = <<rows>>
  /\ pc' = "gate_row"
  /\ UNCHANGED <<dest, prog, args, files, baseline_agg, current_agg, rows, exit_code,
                 regressions, gate_log, metrics, points, out_csv, out_png, status>>

\* lines 463-473: exit_code = 0, then the per-row check
CmpRowCheck ==
  /\ prog = "compare" /\ pc = "gate_row"
  /\ LET found == IF args.fail_if_regress_pct # <<>>
                  THEN _find_regressions(rows, args.fail_if_regress_pct[1])
                  ELSE <<>>
     IN /\ regressions' = found
        /\ exit_code' = IF found # <<>> THEN 2 ELSE 0
        /\ gate_log' = IF found # <<>> THEN Append(gate_log, "FAIL_ROW") ELSE gate_log
  /\ pc' = "gate_mean"
  /\ UNCHANGED <<dest, prog, args, files, baseline_agg, current_agg, rows,
                 metrics, points, out_md, out_csv, out_png, status>>

\* CmpMeanCheck with a passing mean check resetting exit_code to 0
CmpMeanCheck_reset ==
  /\ prog = "compare" /\ pc = "gate_mean"
  /\ LET failed == /\ args.fail_if_mean_regress_pct # <<>>
                   /\ MeanRegressed(rows, args.fail_if_mean_regress_pct[1])
     IN /\ exit_code' = IF failed THEN 2 ELSE 0
        /\ gate_log' = IF failed THEN Append(gate_log, "FAIL_MEAN") ELSE gate_log
  /\ pc' = "return"
  /\ UNCHANGED <<dest, prog, args, files, baseline_agg, current_agg, rows, regressions,
                 metrics, points, out_md, out_csv, out_png, status>>

\* lines 475-484: the mean check
CmpMeanCheck ==
  /\ prog = "compare" /\ pc = "gate_mean"
  /\ LET failed == /\ args.fail_if_mean_regress_pct # <<>>
                   /\ MeanRegressed(rows, args.fail_if_mean_regress_pct[1])
     IN /\ exit_code' = IF failed THEN 2 ELSE exit_code
        /\ gate_log' = IF failed THEN Append(gate_log, "FAIL_MEAN") ELSE gate_log
  /\ pc' = "return"
  /\ UNCHANGED <<dest, prog, args, files, baseline_agg, current_agg, rows, regressions,
                 metrics, points, out_md, out_csv, out_png, status>>

\* lines 486-495: return exit_code, raise SystemExit(main())
CmpReturn ==
  /\ prog = "compare" /\ pc = "return"
  /\ gate_log' = IF /\ exit_code = 0
                    /\ (args.fail_if_regress_pct # <<>> \/ args.fail_if_mean_regress_pct # <<>>)
                 THEN Append(gate_log, "PASS") ELSE gate_log
  /\ status' = exit_code
  /\ pc' = "done"
  /\ UNCHANGED <<dest, prog, args, files, baseline_agg, current_agg, rows, exit_code,
                 regressions, metrics, points, out_md, out_csv, out_png>>

(***************************************************************************)
(* bench_single_report.main                                                *)
(***************************************************************************)
\* SglPrepare with the test for no points made after _save_markdown
SglPrepare_late ==
  /\ prog = "single" /\ pc = "start"
  /\ IF ~files.input.exists \/ ~files.input.json
     THEN /\ Fatal("fatal_input")
          /\ UNCHANGED <<metrics, points, out_md>>
     ELSE LET ms == _extract_metrics(files.input.benchmarks)
              ps == _to_points(ms, args.include)
          IN /\ metrics' = ms
             /\ points' = ps
             /\ IF ps = <<>> THEN Fatal("fatal_no_overlap") /\ out_md' = <<<<>>>>
                ELSE pc' = "markdown" /\ UNCHANGED <<status, out_md>>
  /\ UNCHANGED <<dest, prog, args, files, baseline_agg, current_agg, rows, exit_code,
                 regressions, gate_log, out_csv, out_png>>

\* lines 373-381: load the input, extract, build the points
SglPrepare ==
  /\ prog = "single" /\ pc = "start"
  /\ IF ~files.input.exists \/ ~files.input.json
     THEN /\ Fatal("fatal_input")
          /\ UNCHANGED <<metrics, points>>
     ELSE LET ms == _extract_metrics(files.input.benchmarks)
              ps == _to_points(ms, args.include)
          IN /\ metrics' = ms
             /\ points' = ps
             /\ IF ps = <<>> THEN Fatal("fatal_no_overlap")
                ELSE pc' = "markdown" /\ UNCHANGED status
  /\ UNCHANGED <<dest, prog, args, files, baseline_agg, current_agg, rows, exit_code,
                 regressions, gate_log, out_md, out_csv, out_png>>

\* lines 383-391: nested, scenarios, impl_order, then _save_markdown
SglSaveMarkdown ==
  /\ prog = "single" /\ pc = "markdown"
  /\ out_md' = <<SingleMarkdown(_to_nested(points), ScenariosOf(points), ImplOrderOf(points))>>
  /\ pc' = "csv"
  /\ UNCHANGED <<dest, prog, args, files, baseline_agg, current_agg, rows, exit_code,
                 regressions, gate_log, metrics, points, out_csv, out_png, status>>

\* line 392: _save_csv
SglSaveCsv ==
  /\ prog = "single" /\ pc = "csv"
  /\ out_csv' = <<points>>
  /\ pc' = "plot"
  /\ UNCHANGED <<dest, prog, args, files, baseline_agg, current_agg, rows, exit_code,
                 regressions, gate_log, metrics, points, out_md, out_png, status>>

\* lines 393-399: unless --no-plot, _plot either renders and saves the
\* chart or aborts (matplotlib missing, lines 216-221; no implementation,
\* lines 225-226; an error while rendering); then main returns
SglPlot ==
  /\ prog = "single" /\ pc = "plot"
  /\ IF args.no_plot
     THEN pc' = "done" /\ status' = 0 /\ UNCHANGED out_png
     ELSE \E rendered \in BOOLEAN :
            LET nested == _to_nested(points)
                scenarios == ScenariosOf(points)
                impl_order == ImplOrderOf(points)
            IN IF ~rendered \/ PlotImpls(nested, scenarios, impl_order) = <<>>
               THEN Fatal("fatal_plot") /\ UNCHANGED out_png
               ELSE /\ out_png' = <<SinglePlot(nested, scenarios, impl_order)>>
                    /\ pc' = "done"
                    /\ status' = 0
  /\ UNCHANGED <<dest, prog, args, files, baseline_agg, current_agg, rows, exit_code,
                 regressions, gate_log, metrics, points, out_md, out_csv>>

\* CmpPrepare with the rows in rounded arithmetic
CmpPrepareFl ==
  /\ prog = "compare" /\ pc = "start"
  /\ IF ~files.baseline.exists \/ ~files.current.exists
        \/ ~files.baseline.json \/ ~files.current.json
     THEN /\ Fatal("fatal_input")
          /\ UNCHANGED <<baseline_agg, current_agg, rows>>
     ELSE LET b == _extract_aggregates(files.baseline.benchmarks)
              c == _extract_aggregates(files.current.benchmarks)
              rs == _to_rowsFl(b, c, args.include)
          IN /\ baseline_agg' = b
             /\ current_agg' = c
             /\ rows' = rs
             /\ IF rs = <<>> THEN Fatal("fatal_no_overlap")
                ELSE pc' = "plot" /\ UNCHANGED status
  /\ UNCHANGED <<dest, prog, args, files, exit_code, regressions, gate_log, metrics, points,
                 out_md, out_csv, out_png>>

(***************************************************************************)
(* bench_stage_results.py                                                  *)
(***************************************************************************)
\* lines 23-27: the result file a path names; a directory stands for the
\* result.json inside it
_resolve_result_path(raw) == [exists |-> raw.exists, content |-> raw.content]

\* lines 30-34: <<copied, the destination file afterwards>>
_copy(src, dst) ==
  IF ~src.exists THEN <<FALSE, dst>> ELSE <<TRUE, <<src.content>>>>

\* line 51: _copy(baseline_src, baseline_dst)
StgCopyBaseline ==
  /\ prog = "stage" /\ pc = "start"
  /\ LET r == _copy(_resolve_result_path(files.baseline), dest.baseline)
     IN /\ dest' = [dest EXCEPT !.baseline = r[2]]
        /\ IF r[1] THEN pc' = "copy_current" /\ UNCHANGED status
           ELSE Fatal("fatal_input")
  /\ UNCHANGED <<prog, args, files, baseline_agg, current_agg, rows, exit_code,
                 regressions, gate_log, metrics, points, out_md, out_csv, out_png>>

\* lines 52-57: _copy(current_src, current_dst), then return 0
StgCopyCurrent ==
  /\ prog = "stage" /\ pc = "copy_current"
  /\ LET r == _copy(_resolve_result_path(files.current), dest.current)
     IN /\ dest' = [dest EXCEPT !.current = r[2]]
        /\ IF r[1] THEN pc' = "done" /\ status' = 0
           ELSE Fatal("fatal_input")
  /\ UNCHANGED <<prog, args, files, baseline_agg, current_agg, rows, exit_code,
                 regressions, gate_log, metrics, points, out_md, out_csv, out_png>>

Next ==
  \/ StgCopyBaseline
  \/ StgCopyCurrent
  \/ CmpPrepare
  \/ CmpPlot
  \/ CmpSaveMarkdown
  \/ CmpRowCheck
  \/ CmpMeanCheck
  \/ CmpReturn
  \/ SglPrepare
  \/ SglSaveMarkdown
  \/ SglSaveCsv
  \/ SglPlot

Spec == Init /\ [][Next]_vars

(***************************************************************************)
(* bench_compare with the row arithmetic rounded: one benchmark, its two   *)
(* means any non-zero integers up to MaxFloatMean, no gate.                *)
(***************************************************************************)
\* the result files of one benchmark with a non-zero mean
RoundedFiles ==
  {JsonFile(<<[run_name |-> nFoo, aggregate_name |-> "mean", cpu_time |-> Num(v)]>>) :
     v \in ((-MaxFloatMean)..MaxFloatMean) \ {0}}

InitRounded ==
  /\ prog = "compare"
  /\ args = [include |-> <<>>, fail_if_regress_pct |-> <<>>, fail_if_mean_regress_pct |-> <<>>]
  /\ files \in [baseline : RoundedFiles \cup {NoFile}, current : RoundedFiles]
  /\ dest = NoDest
  /\ pc = "start"
  /\ baseline_agg = EmptyDict
  /\ current_agg = EmptyDict
  /\ rows = <<>>
  /\ exit_code = 0
  /\ regressions = <<>>
  /\ gate_log = <<>>
  /\ metrics = EmptyODict
  /\ points = <<>>
  /\ out_md = <<>>
  /\ out_csv = <<>>
  /\ out_png = <<>>
  /\ status = -1

NextRounded ==
  \/ CmpPrepareFl
  \/ CmpPlot
  \/ CmpSaveMarkdown
  \/ CmpRowCheck
  \/ CmpMeanCheck
  \/ CmpReturn

SpecRounded == InitRounded /\ [][NextRounded]_vars

(***************************************************************************)
(* Properties of bench_compare.                                            *)
(***************************************************************************)
\* bench_compare has extracted both aggregate sets and built its rows
CmpComputed == prog = "compare" /\ pc \notin {"start", "fatal_input"}

\* the per-row check has run
RowChecked == prog = "compare" /\ pc \in {"gate_mean", "return", "done"}

\* the mean check has run
MeanChecked == prog = "compare" /\ pc \in {"return", "done"}

HasRow(k) == \E i \in DOMAIN rows : rows[i].name = k

\* k is a key of both aggregate sets
InBoth(k) == k \in (DOMAIN baseline_agg) \cap (DOMAIN current_agg)

\* k has a mean in both aggregate sets
MeanInBoth(k) ==
  InBoth(k) /\ "mean" \in DOMAIN baseline_agg[k] /\ "mean" \in DOMAIN current_agg[k]

\* a float that is a number, not NaN or an infinity
Finite(x) == x.d > 0

\* x is finite and x > t, for an integer t, in integer arithmetic
Exceeds(x, t) == x.d > 0 /\ x.n > t * x.d

\* C1 as stated: with no include filter, the rows hold a row for k if and
\* only if k is a key of both the baseline and the current aggregate set.
C1_RowIffKeyOfBoth ==
  (CmpComputed /\ args.include = <<>>) =>
    \A k \in {nFoo, nBar} : HasRow(k) <=> InBoth(k)

\* C1 amended: with no include filter, the rows hold a row for k if and
\* only if k is a key of both aggregate sets and has a mean in both; an
\* identity of one set only, or one without a mean on either side, has no
\* row, and no identity has two rows.
C1_RowIffMeanInBoth ==
  (CmpComputed /\ args.include = <<>>) =>
    /\ \A k \in {nFoo, nBar} : HasRow(k) <=> MeanInBoth(k)
    /\ \A i, j \in DOMAIN rows : rows[i].name = rows[j].name => i = j

\* C1 witness: an identity that is a key of both sets but has no mean on
\* one side is left out while another identity gets its row.
C1_Witness ==
  /\ CmpComputed /\ args.include = <<>>
  /\ \E k \in {nFoo, nBar} : InBoth(k) /\ ~MeanInBoth(k) /\ ~HasRow(k)
  /\ \E k \in {nFoo, nBar} : HasRow(k)

\* the indexes of the rows whose delta_pct is finite and above the per-row
\* threshold
Violators ==
  {i \in DOMAIN rows : Exceeds(rows[i].delta_pct, args.fail_if_regress_pct[1].n)}

\* C2: the violation list of the per-row check is exactly the rows whose
\* delta_pct is finite and strictly greater than the threshold, in the
\* order of the rows; a row whose delta_pct equals the threshold or is
\* undefined (NaN) is never in it.
C2_RegressionsExact ==
  (RowChecked /\ args.fail_if_regress_pct # <<>>) =>
    /\ Len(regressions) = Cardinality(Violators)
    /\ \A j \in DOMAIN regressions :
         \E i \in Violators :
           /\ Cardinality({k \in Violators : k < i}) = j - 1
           /\ regressions[j] = rows[i]
    /\ \A j \in DOMAIN regressions :
         /\ ~IsNaN(regressions[j].delta_pct)
         /\ regressions[j].delta_pct # args.fail_if_regress_pct[1]

\* C2 witness: of two rows, one with a NaN delta_pct (zero baseline mean)
\* and one above the threshold, only the second is reported.
C2_Witness ==
  /\ RowChecked /\ args.fail_if_regress_pct # <<>>
  /\ Len(rows) = 2 /\ Len(regressions) = 1
  /\ \E i \in DOMAIN rows :
       rows[i].baseline_mean_ns = Num(0) /\ IsNaN(rows[i].delta_pct)

\* the indexes of the rows with a finite delta_pct
FiniteRows == {i \in DOMAIN rows : Finite(rows[i].delta_pct)}

RECURSIVE DenProduct(_)
\* the product of the denominators of the delta_pct of the rows in S
DenProduct(S) ==
  IF S = {} THEN 1
  ELSE LET i == CHOOSE x \in S : TRUE
       IN rows[i].delta_pct.d * DenProduct(S \ {i})

RECURSIVE ScaledSum(_, _)
\* D times the sum of the delta_pct of the rows in S, D a common multiple
\* of their denominators
ScaledSum(S, D) ==
  IF S = {} THEN 0
  ELSE LET i == CHOOSE x \in S : TRUE
       IN rows[i].delta_pct.n * (D \div rows[i].delta_pct.d) + ScaledSum(S \ {i}, D)

\* the arithmetic mean of the finite delta_pct values exceeds the integer m
MeanExceeds(m) ==
  /\ FiniteRows # {}
  /\ ScaledSum(FiniteRows, DenProduct(FiniteRows))
       > m * Cardinality(FiniteRows) * DenProduct(FiniteRows)

\* C3: with a mean threshold m configured, the mean check fails if and
\* only if the arithmetic mean of the finite delta_pct values of the rows
\* is strictly greater than m; undefined values count in neither the sum
\* nor the count, and with no finite value the check does not fail.
C3_MeanCheckExact ==
  (MeanChecked /\ args.fail_if_mean_regress_pct # <<>>) =>
    ("FAIL_MEAN" \in Range(gate_log) <=> MeanExceeds(args.fail_if_mean_regress_pct[1].n))

\* C3 witness: the mean check fails on rows of which one has an undefined
\* delta_pct, which is left out of the mean.
C3_Witness ==
  /\ MeanChecked /\ args.fail_if_mean_regress_pct # <<>>
  /\ "FAIL_MEAN" \in Range(gate_log)
  /\ \E i \in DOMAIN rows : IsNaN(rows[i].delta_pct)

\* C4: the run returns 0 if and only if every enabled check passes and 2
\* otherwise; a failure of the per-row check is not reset by a passing
\* mean check; with neither threshold configured it returns 0.
C4_GateVerdict ==
  (prog = "compare" /\ pc = "done") =>
    LET row_fails == args.fail_if_regress_pct # <<>> /\ Violators # {}
        mean_fails == /\ args.fail_if_mean_regress_pct # <<>>
                      /\ MeanExceeds(args.fail_if_mean_regress_pct[1].n)
    IN status = IF row_fails \/ mean_fails THEN 2 ELSE 0

\* C4 witness: the per-row check failed, the enabled mean check passed,
\* and the run returned 2.
C4_Witness ==
  /\ prog = "compare" /\ pc = "done"
  /\ args.fail_if_mean_regress_pct # <<>>
  /\ gate_log = <<"FAIL_ROW">>
  /\ status = 2

\* C5: a row built from finite means b and c has delta_pct = (c - b) / b *
\* 100 when b # 0 and NaN when b = 0, speedup = b / c when c # 0 and NaN
\* when c = 0, and an identity with a zero mean still gets its row.
C5_DeltaAndSpeedup ==
  CmpComputed =>
    /\ \A i \in DOMAIN rows :
         LET r == rows[i]
             b == r.baseline_mean_ns
             c == r.current_mean_ns
         IN /\ b = baseline_agg[r.name]["mean"]
            /\ c = current_agg[r.name]["mean"]
            /\ (Finite(b) /\ Finite(c)) =>
                 /\ IF b.n # 0
                    THEN /\ Finite(r.delta_pct)
                         /\ r.delta_pct.n * b.n = (c.n - b.n) * 100 * r.delta_pct.d
                    ELSE IsNaN(r.delta_pct)
                 /\ IF c.n # 0
                    THEN /\ Finite(r.speedup)
                         /\ r.speedup.n * c.n = b.n * r.speedup.d
                    ELSE IsNaN(r.speedup)
    /\ \A k \in {nFoo, nBar} :
         (/\ MeanInBoth(k)
          /\ args.include # <<>> => Search(args.include, k)
          /\ baseline_agg[k]["mean"] = Num(0) \/ current_agg[k]["mean"] = Num(0))
         => HasRow(k)

\* C5 witness: one row with a zero baseline mean and another with a zero
\* current mean are both emitted.
C5_Witness ==
  /\ CmpComputed
  /\ \E i, j \in DOMAIN rows :
       /\ i # j
       /\ rows[i].baseline_mean_ns = Num(0) /\ rows[i].current_mean_ns = Num(1)
       /\ rows[j].current_mean_ns = Num(0) /\ rows[j].baseline_mean_ns = Num(2)

\* C6 as stated: for every row with finite means and a non-zero baseline
\* mean, current < baseline implies delta_pct < 0, current > baseline
\* implies delta_pct > 0, and delta_pct = 0 iff current = baseline.
C6_SignNonZeroBaseline ==
  CmpComputed =>
    \A i \in DOMAIN rows :
      LET b == rows[i].baseline_mean_ns
          c == rows[i].current_mean_ns
          delta == rows[i].delta_pct
      IN (Finite(b) /\ Finite(c) /\ b.n # 0) =>
           /\ c.n < b.n => (Finite(delta) /\ delta.n < 0)
           /\ c.n > b.n => (Finite(delta) /\ delta.n > 0)
           /\ (Finite(delta) /\ delta.n = 0) <=> c.n = b.n

\* C6 amended: for every row with finite means and a positive baseline
\* mean, current < baseline implies delta_pct < 0 and current > baseline
\* implies delta_pct > 0; with a negative baseline mean the two signs are
\* the other way round; for every non-zero baseline mean delta_pct = 0 iff
\* current = baseline.
C6_SignPositiveBaseline ==
  CmpComputed =>
    \A i \in DOMAIN rows :
      LET b == rows[i].baseline_mean_ns
          c == rows[i].current_mean_ns
          delta == rows[i].delta_pct
      IN (Finite(b) /\ Finite(c) /\ b.n # 0) =>
           /\ Finite(delta)
           /\ (b.n > 0 /\ c.n < b.n) => delta.n < 0
           /\ (b.n > 0 /\ c.n > b.n) => delta.n > 0
           /\ (b.n < 0 /\ c.n < b.n) => delta.n > 0
           /\ (b.n < 0 /\ c.n > b.n) => delta.n < 0
           /\ delta.n = 0 <=> c.n = b.n

\* C6 witness: a row with a positive baseline mean and a smaller current
\* mean (negative delta_pct) beside a row with a negative baseline mean.
C6_Witness ==
  /\ CmpComputed
  /\ \E i, j \in DOMAIN rows :
       /\ rows[i].baseline_mean_ns.n > 0 /\ Finite(rows[i].baseline_mean_ns)
       /\ Finite(rows[i].current_mean_ns)
       /\ rows[i].current_mean_ns.n < rows[i].baseline_mean_ns.n
       /\ rows[i].delta_pct.n < 0
       /\ rows[j].baseline_mean_ns.n < 0 /\ Finite(rows[j].baseline_mean_ns)
       /\ Finite(rows[j].current_mean_ns)

(***************************************************************************)
(* Properties of bench_single_report.                                      *)
(***************************************************************************)
MdWritten == prog = "single" /\ out_md # <<>>
PngWritten == prog = "single" /\ out_png # <<>>

\* the greatest string of a non-empty set
MaxStr(S) == CHOOSE x \in S : \A y \in S : y = x \/ StrLess(y, x)

\* the implementations with a point in scenario sc
ImplsIn(sc) == {points[i].impl : i \in {j \in DOMAIN points : points[j].scenario = sc}}

\* the benchmark names of the points of impl in scenario sc
NamesOf(sc, impl) ==
  {points[i].base_name :
     i \in {j \in DOMAIN points : points[j].scenario = sc /\ points[j].impl = impl}}

\* the mean (an integer number of ns) that impl has in scenario sc: that of
\* its point with the greatest benchmark name, which is stored last
GroupMean(sc, impl) ==
  LET last == MaxStr(NamesOf(sc, impl))
  IN (CHOOSE m \in {points[i].mean_ns : i \in {j \in DOMAIN points : points[j].base_name = last}} :
        TRUE).n

\* f has the least mean of scenario sc
LeastMean(sc, f) ==
  f \in ImplsIn(sc) /\ \A g \in ImplsIn(sc) : GroupMean(sc, f) <= GroupMean(sc, g)

\* the implementations that share the mean of f in scenario sc
TiedWith(sc, f) == {g \in ImplsIn(sc) \ {f} : GroupMean(sc, g) = GroupMean(sc, f)}

\* f comes before g in _default_impl_order of the implementations found
PreferredBefore(f, g) ==
  LET order == _default_impl_order({points[i].impl : i \in DOMAIN points})
  IN \E i, j \in DOMAIN order : order[i] = f /\ order[j] = g /\ i < j

\* the fastest implementation of each scenario: in the markdown report and
\* as marked in the chart
MdFastest == [si \in DOMAIN out_md[1] |-> out_md[1][si].fastest]
PngFastest == out_png[1].fastest

\* C7 as stated: the fastest point of a scenario has the minimum mean, and
\* of several implementations with that mean the first in the preferred
\* order (Patternia, IfElse, Switch, SwitchIndex, StdVisit, then the others
\* lexically) is chosen, in the markdown report and in the chart marker.
C7_TieByPreferredOrder ==
  /\ MdWritten =>
       \A si \in DOMAIN out_md[1] :
         LET sc == out_md[1][si].scenario
             f == MdFastest[si]
         IN LeastMean(sc, f) /\ \A g \in TiedWith(sc, f) : PreferredBefore(f, g)
  /\ PngWritten =>
       \A si \in DOMAIN PngFastest :
         LET sc == ScenariosOf(points)[si]
             f == PngFastest[si]
         IN LeastMean(sc, f) /\ \A g \in TiedWith(sc, f) : PreferredBefore(f, g)

\* C7 amended: the fastest point of a scenario has the minimum mean, and
\* of several implementations with that mean the one that entered the
\* scenario's group first is chosen, which is the one whose least benchmark
\* name is lexically least, in the markdown report and in the chart marker;
\* the preferred order plays no part.
C7_TieByFirstName ==
  /\ MdWritten =>
       \A si \in DOMAIN out_md[1] :
         LET sc == out_md[1][si].scenario
             f == MdFastest[si]
         IN /\ LeastMean(sc, f)
            /\ \A g \in TiedWith(sc, f) :
                 StrLess(MinStr(NamesOf(sc, f)), MinStr(NamesOf(sc, g)))
  /\ PngWritten =>
       /\ Len(PngFastest) = Len(ScenariosOf(points))
       /\ \A si \in DOMAIN PngFastest :
            LET sc == ScenariosOf(points)[si]
                f == PngFastest[si]
            IN /\ LeastMean(sc, f)
               /\ \A g \in TiedWith(sc, f) :
                    StrLess(MinStr(NamesOf(sc, f)), MinStr(NamesOf(sc, g)))

\* C7 witness: IfElse and Patternia share the minimum mean, IfElse with
\* two benchmark names, and IfElse is reported fastest in both outputs.
C7_Witness ==
  /\ MdWritten /\ PngWritten
  /\ MdFastest = <<sIfElse>> /\ PngFastest = <<sIfElse>>
  /\ sPatternia \in TiedWith(sLookup, sIfElse)
  /\ Cardinality(NamesOf(sLookup, sIfElse)) = 2

\* the permutations of 1..n
Perms(n) == {f \in [1..n -> 1..n] : {f[i] : i \in 1..n} = 1..n}

\* the permutations of the positions of an input of each length
PermsOfLen == [n \in 0..MaxRecords |-> Perms(n)]

\* the records q in the order f
Permuted(q, f) == [i \in DOMAIN q |-> q[f[i]]]

\* f keeps the records of q that share a base name in their order
KeepsOrderPerName(q, f) ==
  LET base == [i \in DOMAIN q |-> _base_name_from_entry(q[i])]
  IN \A i, j \in DOMAIN q : (i < j /\ base[f[i]] = base[f[j]]) => f[i] < f[j]

\* per scenario, the fastest implementation and the slowdown reported for
\* it, of the markdown report md
FastestSummary(md) ==
  [si \in DOMAIN md |->
     [scenario |-> md[si].scenario,
      fastest |-> md[si].fastest,
      delta |-> {md[si].lines[k].delta :
                   k \in {x \in DOMAIN md[si].lines : md[si].lines[x].impl = md[si].fastest}}]]

\* the report that the pipeline _extract_metrics -> _to_points -> _to_nested
\* -> _save_markdown builds from the records q
ReportOf(q) ==
  LET ps == _to_points(_extract_metrics(q), args.include)
      nested == _to_nested(ps)
  IN SingleMarkdown(nested, Sorted(DOMAIN nested), ImplOrderOf(ps))

\* the same report from the metrics m that _extract_metrics has built
ReportOfMetrics(m) ==
  LET ps == _to_points(m, args.include)
      nested == _to_nested(ps)
  IN SingleMarkdown(nested, Sorted(DOMAIN nested), ImplOrderOf(ps))

\* C8 as stated: whatever the order of the records of the input, the same
\* implementation is selected as fastest in every scenario, with the same
\* slowdown of 0.
C8_AnyPermutation ==
  MdWritten =>
    \A f \in PermsOfLen[Len(files.input.benchmarks)] :
      FastestSummary(ReportOf(Permuted(files.input.benchmarks, f)))
        = FastestSummary(out_md[1])

\* C8 amended: reordering the records of the input in any way that keeps
\* the records of one benchmark name in their relative order never changes
\* which implementation is selected as fastest in any scenario, nor its
\* slowdown of 0.  Stated of the report when _save_markdown has just
\* written it: neither the report nor the input changes afterwards.
C8_PermutationPerName ==
  (MdWritten /\ pc = "csv") =>
    LET written == FastestSummary(out_md[1])
        reordered == {_extract_metrics(Permuted(files.input.benchmarks, f)) :
                        f \in {g \in PermsOfLen[Len(files.input.benchmarks)] :
                                 KeepsOrderPerName(files.input.benchmarks, g)}}
    IN /\ \A m \in reordered : FastestSummary(ReportOfMetrics(m)) = written
       /\ \A si \in DOMAIN written : written[si].delta = {Num(0)}

\* C8 witness: a report from three records, two of one benchmark name with
\* different values and one of another implementation with the same mean as
\* the first reports, so that the records can be reordered.
C8_Witness ==
  /\ MdWritten /\ pc = "csv"
  /\ Len(files.input.benchmarks) = 3
  /\ \E i, j, k \in 1..3 :
       /\ i < j
       /\ files.input.benchmarks[i].run_name = files.input.benchmarks[j].run_name
       /\ files.input.benchmarks[i].cpu_time # files.input.benchmarks[j].cpu_time
       /\ files.input.benchmarks[k].run_name = nPatternia
       /\ files.input.benchmarks[i].run_name = nIfElse
       /\ k < i
       /\ sPatternia \in TiedWith(sLookup, sIfElse)

\* the least mean of scenario sc
FastestMean(sc) ==
  CHOOSE m \in {GroupMean(sc, g) : g \in ImplsIn(sc)} :
    \A g \in ImplsIn(sc) : m <= GroupMean(sc, g)

\* x is the float (mean / fastest_mean - 1) * 100, for integers
IsSlowdown(x, mean, fastest_mean) ==
  Finite(x) /\ x.n * fastest_mean = (mean - fastest_mean) * 100 * x.d

\* the slowdown the chart draws for impl in the scenario of index si
PngRel(impl, si) ==
  CHOOSE x \in {out_png[1].rel[k][si] :
                  k \in {y \in DOMAIN out_png[1].impls : out_png[1].impls[y] = impl}} : TRUE

\* C9 as stated: in every scenario group, also one whose minimum mean is
\* 0, the slowdown of the fastest point is exactly 0 and that of each point
\* is (mean / fastest_mean - 1) * 100, in the markdown column and in the
\* chart's series.
C9_SlowdownEveryGroup ==
  /\ MdWritten =>
       \A si \in DOMAIN out_md[1] :
         LET sec == out_md[1][si]
             fm == FastestMean(sec.scenario)
         IN \A k \in DOMAIN sec.lines :
              /\ sec.lines[k].impl = sec.fastest => sec.lines[k].delta = Num(0)
              /\ fm # 0 => IsSlowdown(sec.lines[k].delta,
                                      GroupMean(sec.scenario, sec.lines[k].impl), fm)
  /\ PngWritten =>
       \A si \in DOMAIN PngFastest :
         LET sc == ScenariosOf(points)[si]
             fm == FastestMean(sc)
         IN /\ PngRel(PngFastest[si], si) = Num(0)
            /\ \A g \in ImplsIn(sc) :
                 fm # 0 => IsSlowdown(PngRel(g, si), GroupMean(sc, g), fm)

\* C9 amended: in every scenario group whose minimum mean is greater than
\* 0, the slowdown of each point is (mean / fastest_mean - 1) * 100 and
\* that of the fastest point is exactly 0, in the markdown column and in
\* the chart's series; in a group whose minimum mean is 0 the markdown
\* column still shows 0 for the fastest point, and every other value, the
\* chart's value for the fastest point included, is undefined (NaN).
C9_SlowdownPositiveGroup ==
  /\ MdWritten =>
       \A si \in DOMAIN out_md[1] :
         LET sec == out_md[1][si]
             fm == FastestMean(sec.scenario)
         IN /\ {sec.lines[k].impl : k \in DOMAIN sec.lines} = ImplsIn(sec.scenario)
            /\ \A k \in DOMAIN sec.lines :
                 /\ sec.lines[k].impl = sec.fastest => sec.lines[k].delta = Num(0)
                 /\ fm > 0 => IsSlowdown(sec.lines[k].delta,
                                         GroupMean(sec.scenario, sec.lines[k].impl), fm)
                 /\ (fm = 0 /\ sec.lines[k].impl # sec.fastest) => IsNaN(sec.lines[k].delta)
  /\ PngWritten =>
       \A si \in DOMAIN PngFastest :
         LET sc == ScenariosOf(points)[si]
             fm == FastestMean(sc)
         IN /\ fm > 0 => PngRel(PngFastest[si], si) = Num(0)
            /\ \A g \in ImplsIn(sc) :
                 /\ fm > 0 => IsSlowdown(PngRel(g, si), GroupMean(sc, g), fm)
                 /\ fm = 0 => IsNaN(PngRel(g, si))

\* C9 witness: a group with minimum mean 1 and a point of mean 2, reported
\* 100 % slower in both outputs.
C9_Witness ==
  /\ MdWritten /\ PngWritten
  /\ FastestMean(sLookup) = 1
  /\ \E g \in ImplsIn(sLookup) :
       /\ GroupMean(sLookup, g) = 2
       /\ PngRel(g, 1) = Num(100)
       /\ \E k \in DOMAIN out_md[1][1].lines :
            out_md[1][1].lines[k].impl = g /\ out_md[1][1].lines[k].delta = Num(100)

(***************************************************************************)
(* Properties of both scripts.                                             *)
(***************************************************************************)
\* every input file of the run exists and holds JSON
InputsOk ==
  IF prog = "compare"
  THEN /\ files.baseline.exists /\ files.baseline.json
       /\ files.current.exists /\ files.current.json
  ELSE files.input.exists /\ files.input.json

\* the rows (bench_compare) or points (bench_single_report) left to report
Reportable == IF prog = "compare" THEN rows ELSE points

NothingWritten == out_md = <<>> /\ out_csv = <<>> /\ out_png = <<>>

\* C10: in both scripts a run that ends in an input error (a missing or
\* malformed input file) or in a no-overlap error (no row or point left
\* after filtering) has written no report artifact; those runs are exactly
\* the ones with such an input, and every artifact ever written comes from
\* a run with well-formed inputs and at least one row or point.
C10_FatalBeforeArtifacts ==
  prog \in {"compare", "single"} =>
    /\ pc \in {"fatal_input", "fatal_no_overlap"} => (status = 1 /\ NothingWritten)
    /\ ~NothingWritten => (InputsOk /\ Reportable # <<>>)
    /\ pc # "start" =>
         /\ pc = "fatal_input" <=> ~InputsOk
         /\ pc = "fatal_no_overlap" <=> (InputsOk /\ Reportable = <<>>)

\* C10 witness: bench_single_report stopped because the include filter
\* left no point of a non-empty input, with nothing written.
C10_Witness ==
  /\ prog = "single" /\ pc = "fatal_no_overlap"
  /\ args.include # <<>> /\ metrics.keys # <<>>
  /\ NothingWritten

(***************************************************************************)
(* Properties of bench_stage_results.                                      *)
(***************************************************************************)
\* the source file that --baseline / --current resolves to is absent
SourceAbsent(which) == ~_resolve_result_path(files[which]).exists

\* a destination file holds what this run copied into it
StagedByRun(which) == dest[which] \in {<<newBaseline>>, <<newCurrent>>}

\* C11: when the baseline or the current source file is absent, the run of
\* bench_stage_results ends in a fatal error and neither destination file
\* has been created or overwritten by the run.
C11_NoPartialStaging ==
  (prog = "stage" /\ (SourceAbsent("baseline") \/ SourceAbsent("current"))) =>
    /\ pc \notin {"start", "copy_current"} => status = 1
    /\ ~StagedByRun("baseline") /\ ~StagedByRun("current")

(***************************************************************************)
(* The exit status of bench_compare.                                       *)
(***************************************************************************)
\* bench_compare has ended
CmpEnded == prog = "compare" /\ status # -1

\* the inputs are readable and left rows to compare
Comparable == InputsOk /\ rows # <<>>

\* the rows violate an enabled check of the gate
GateViolated ==
  \/ args.fail_if_regress_pct # <<>> /\ Violators # {}
  \/ args.fail_if_mean_regress_pct # <<>>
       /\ MeanExceeds(args.fail_if_mean_regress_pct[1].n)

KnownRank(impl) ==
  CASE impl = sPatternia -> 1
    [] impl = sIfElse -> 2
    [] impl = sSwitch -> 3
    [] impl = sSwitchIndex -> 4
    [] impl = sStdVisit -> 5
    [] OTHER -> 6

\* f is emitted before g: a known label before a later known one and
\* before every other label, the other labels lexically
EmittedBefore(f, g) ==
  \/ KnownRank(f) < KnownRank(g)
  \/ KnownRank(f) = 6 /\ KnownRank(g) = 6 /\ StrLess(f, g)

\* the implementations of sequence `impls` are exactly those of the set
\* `found`, each once, in the emitted order
InImplOrder(impls, found) ==
  /\ Range(impls) = found
  /\ \A k, l \in DOMAIN impls : k < l => EmittedBefore(impls[k], impls[l])

NameOnlyInput ==
  /\ prog = "single" /\ pc \notin {"start", "fatal_input"}
  /\ files.input.benchmarks # <<>>
  /\ \A i \in DOMAIN files.input.benchmarks :
       DOMAIN files.input.benchmarks[i] = {"name", "cpu_time"}

\* the records of the input named `name`
RecordsNamed(name) ==
  {i \in DOMAIN files.input.benchmarks : files.input.benchmarks[i].name = name}

\* the value of the last record named `name`
LastValue(name) ==
  files.input.benchmarks[CHOOSE i \in RecordsNamed(name) :
                           \A j \in RecordsNamed(name) : j <= i].cpu_time

\* the statistic suffix of each aggregate kind
SuffixOf(kind) ==
  CASE kind = "mean" -> sufMean
    [] kind = "median" -> sufMedian
    [] kind = "stddev" -> sufStddev
    [] kind = "cv" -> sufCv

\* C15: for records without an explicit aggregate kind, a name that ends in
\* a statistic suffix gives the base identity with the suffix stripped and
\* its value is stored under the kind the suffix names; a value is stored
\* as the mean only when its name has no suffix and the identity has no
\* mean yet.
C15_SuffixNamesKind ==
  NameOnlyInput =>
    /\ metrics.keys = <<nIfElse>>
    /\ LET slot == metrics.map[nIfElse]
           suffixed == {k \in {"mean", "median", "stddev", "cv"} :
                          RecordsNamed(nIfElse \o SuffixOf(k)) # {}}
       IN /\ DOMAIN slot = suffixed \cup (IF RecordsNamed(nIfElse) # {} THEN {"mean"} ELSE {})
          /\ \A k \in suffixed : slot[k] = LastValue(nIfElse \o SuffixOf(k))
          /\ ("mean" \in DOMAIN slot /\ "mean" \notin suffixed) =>
               slot["mean"] = files.input.benchmarks[
                                CHOOSE i \in RecordsNamed(nIfElse) :
                                  \A j \in RecordsNamed(nIfElse) : i <= j].cpu_time

(***************************************************************************)
(* The decomposition of a benchmark name.                                  *)
(***************************************************************************)
RECURSIVE Upto(_, _)
\* the characters of s before its first c, all of s when it has no c
Upto(s, c) ==
  IF s = <<>> \/ Head(s) = c THEN <<>> ELSE <<Head(s)>> \o Upto(Tail(s), c)

RECURSIVE After(_, _)
\* the characters of s after its first c
After(s, c) ==
  IF s = <<>> THEN <<>> ELSE IF Head(s) = c THEN Tail(s) ELSE After(Tail(s), c)

\* s without a leading "BM_"
WithoutBM(s) ==
  IF Len(s) >= 3 /\ s[1] = 66 /\ s[2] = 77 /\ s[3] = 95
  THEN [i \in 1..(Len(s) - 3) |-> s[i + 3]]
  ELSE s

\* the pair the rule gives for identity s
Decomposed(s) ==
  LET rest == WithoutBM(Upto(s, 47))
  IN IF 95 \in Range(rest) THEN <<Upto(rest, 95), After(rest, 95)>>
     ELSE <<sUnknown, rest>>

\* C16: every point carries the labels that the one rule gives for its
\* name (cut at the first '/', strip a leading "BM_", split at the first
\* '_', or Unknown and the remainder when there is no '_'); a name of any
\* shape gets its point; no label holds a '/'; and the name with another
\* parameter suffix, or with none, decomposes to the same pair.
\* Stated of the points when _to_points has just returned them (they do
\* not change afterwards).
C16_OneRule ==
  /\ (prog = "single" /\ pc = "markdown") =>
       \A i \in DOMAIN points :
         LET p == points[i]
             stem == Upto(p.base_name, 47)
         IN /\ <<p.impl, p.scenario>> = Decomposed(p.base_name)
            /\ 47 \notin Range(p.impl) \cup Range(p.scenario)
            /\ _split_impl_and_scenario(stem) = <<p.impl, p.scenario>>
            /\ _split_impl_and_scenario(stem \o <<47, 97>>) = <<p.impl, p.scenario>>
  /\ (prog = "single" /\ pc \notin {"start", "fatal_input"}
        /\ args.include = <<>> /\ Len(files.input.benchmarks) = 1) =>
       LET r == files.input.benchmarks[1]
       IN ("run_name" \in DOMAIN r /\ r.run_name # <<>> /\ "aggregate_name" \in DOMAIN r)
            => (Len(points) = 1 /\ points[1].base_name = r.run_name)

\* C16 witness: the name "BM_a_/" gave the implementation "a" and the
\* empty scenario.
C16_Witness ==
  /\ prog = "single" /\ pc = "markdown"
  /\ Len(points) = 1
  /\ points[1].base_name = sBM \o <<97, 95, 47>>
  /\ points[1].impl = <<97>> /\ points[1].scenario = <<>>

(***************************************************************************)
(* The artifacts a run leaves.                                             *)
(***************************************************************************)
\* the artifacts the run was asked for: bench_compare writes a chart and a
\* markdown report, bench_single_report a markdown report, a CSV and,
\* unless --no-plot is given, a chart
Requested ==
  IF prog = "compare" THEN {"png", "md"}
  ELSE IF args.no_plot THEN {"md", "csv"}
  ELSE {"md", "csv", "png"}

\* the artifacts written so far
Written ==
  (IF out_md # <<>> THEN {"md"} ELSE {})
    \cup (IF out_csv # <<>> THEN {"csv"} ELSE {})
    \cup (IF out_png # <<>> THEN {"png"} ELSE {})

\* C17: a run of bench_compare or bench_single_report that has ended, also
\* one aborted inside chart rendering, has written either all of the
\* artifacts asked for or none of them.
C17_AllOrNothing ==
  (prog \in {"compare", "single"} /\ status # -1) =>
    (Written = Requested \/ Written = {})

(***************************************************************************)
(* speedup against delta_pct, in rounded arithmetic.                       *)
(***************************************************************************)
\* speedup * (100 + delta_pct) - 100 of row r, computed exactly from the
\* two floats the row holds
IdentityError(r) == FSub(FMul(r.speedup, FAdd(Num(100), r.delta_pct)), Num(100))

\* 100 * (1 + 4 * |1 - b / c|) * 2^-MantBits for the means b and c of row r
RoundingTolerance(r) ==
  FMul(Rat(100, Pow2(MantBits)),
       FAdd(Num(1),
            FMul(Num(4), FAbs(FSub(Num(1), FDiv(r.baseline_mean_ns, r.current_mean_ns))))))

\* the means of row r are finite and not zero
FiniteNonZero(r) ==
  /\ Finite(r.baseline_mean_ns) /\ r.baseline_mean_ns.n # 0
  /\ Finite(r.current_mean_ns) /\ r.current_mean_ns.n # 0

\* C13 as stated: for every row with finite, non-zero means,
\* speedup * (100 + delta_pct) = 100.
C13_ExactIdentity ==
  CmpComputed =>
    \A i \in DOMAIN rows :
      FiniteNonZero(rows[i]) => IdentityError(rows[i]) = Num(0)

\* C13 amended: for every row with finite, non-zero means b and c,
\* speedup * (100 + delta_pct) is 100 up to the rounding of the floats:
\* it differs from 100 by at most 100 * (1 + 4 * |1 - b / c|) * 2^-MantBits.
C13_IdentityWithinRounding ==
  CmpComputed =>
    \A i \in DOMAIN rows :
      FiniteNonZero(rows[i]) =>
        /\ Finite(rows[i].speedup) /\ Finite(rows[i].delta_pct)
        /\ ~FGt(FAbs(IdentityError(rows[i])), RoundingTolerance(rows[i]))

\* C13 witness: the row of baseline mean 3 and current mean 7, whose
\* speedup * (100 + delta_pct) is not 100.
C13_Witness ==
  /\ CmpComputed /\ Len(rows) = 1
  /\ rows[1].baseline_mean_ns = Num(3) /\ rows[1].current_mean_ns = Num(7)
  /\ IdentityError(rows[1]) # Num(0)

====
